---- MODULE Spec2Model ----
(***************************************************************************)
(* A model of the netflix-service gateway: the TMDB error taxonomy         *)
(* (src/src/error.rs), the upstream client contract and its live           *)
(* implementation (src/src/tmdb_client.rs), the in-memory client double    *)
(* (src/tests/integration/mock_tmdb_client.rs) and the axum handlers that  *)
(* dispatch requests to the contract (src/src/handlers.rs).                *)
(*                                                                         *)
(* Six specifications share the variables:                                 *)
(*   SpecTaxonomy  the pure functions of error.rs and the dispatch table,  *)
(*                 applied to inputs drawn by the initial state;           *)
(*   Spec          the gateway in front of RealTmdbClient, with the        *)
(*                 upstream's behaviour chosen nondeterministically;       *)
(*   SpecMock      the gateway in front of a MockTmdbClient configured     *)
(*                 through its builder, as the integration tests run it;   *)
(*   SpecUrl       the URL RealTmdbClient builds for a contract call, as   *)
(*                 reqwest puts it on the wire;                            *)
(*   SpecConc      the gateway of Spec serving several connections at      *)
(*                 once, over smaller sets of requests and answers;        *)
(*   SpecLive      SpecConc with the upstream call of one connection       *)
(*                 completing, and nothing assumed of the others.          *)
(***************************************************************************)
EXTENDS Integers, Sequences, FiniteSets, TLC

VARIABLES
    unit,      \* SpecTaxonomy: the function under evaluation, its input, its results
    client,    \* AppState.tmdb_client: the contract implementation behind the handlers
    builder,   \* MockTmdbClientBuilder under construction in a test (SpecMock)
    reqs       \* the requests the server is handling, one record per connection

vars == <<unit, client, builder, reqs>>

(***************************************************************************)
(* Bounds of the model.                                                    *)
(***************************************************************************)
MaxRepeat == 2         \* evaluations of a pure function on one input
MaxRequests == 1       \* connections served at once under Spec
MaxBuilderCalls == 2   \* with_* calls a test makes before build()
MaxConcurrent == 2     \* connections served at once under SpecConc

(***************************************************************************)
(* Option<T> and Result<T, E>.                                             *)
(***************************************************************************)
None == [some |-> FALSE]
Some(v) == [some |-> TRUE, val |-> v]
unwrap_or_Zero(o, d) == IF o.some THEN o.val ELSE 0
unwrap_or(o, d) == IF o.some THEN o.val ELSE d

Ok(v) == [ok |-> TRUE, val |-> v]
Err(e) == [ok |-> FALSE, err |-> e]

(***************************************************************************)
(* error.rs: enum TmdbError.  A value is a record whose kind is the        *)
(* variant and whose other fields are the variant's payload.               *)
(***************************************************************************)
NetworkError(msg) == [kind |-> "NetworkError", msg |-> msg]
ParseError(msg) == [kind |-> "ParseError", msg |-> msg]
RateLimitExceeded == [kind |-> "RateLimitExceeded"]
NotFound == [kind |-> "NotFound"]
Unauthorized == [kind |-> "Unauthorized"]
ServerError(code) == [kind |-> "ServerError", code |-> code]
BadRequest(msg) == [kind |-> "BadRequest", msg |-> msg]
Unknown(code, msg) == [kind |-> "Unknown", code |-> code, msg |-> msg]

ErrorKinds ==
    {"NetworkError", "ParseError", "RateLimitExceeded", "NotFound",
     "Unauthorized", "ServerError", "BadRequest", "Unknown"}

\* The status codes the taxonomy documents (reqwest::StatusCode::as_u16).
StatusCodes == 100..599

\* Free text carried by errors and by upstream error bodies.
Messages == {"", "connection refused", "{\"status_message\":\"Invalid API key\"}"}

TmdbErrors ==
    {NetworkError(m) : m \in Messages} \cup {ParseError(m) : m \in Messages}
    \cup {RateLimitExceeded, NotFound, Unauthorized}
    \cup {ServerError(c) : c \in StatusCodes}
    \cup {BadRequest(m) : m \in Messages}
    \cup {Unknown(c, m) : c \in StatusCodes, m \in Messages}

Display_fmt_Terse(e) ==
    CASE e.kind = "NetworkError" -> "Network error"
      [] e.kind = "ParseError" -> "Failed to parse response"
      [] e.kind = "RateLimitExceeded" -> "API rate limit exceeded"
      [] e.kind = "NotFound" -> "Resource not found"
      [] e.kind = "Unauthorized" -> "Unauthorized: Invalid or missing API key"
      [] e.kind = "ServerError" -> "Server error: " \o ToString(e.code)
      [] e.kind = "BadRequest" -> "Bad request: " \o e.msg
      [] e.kind = "Unknown" ->
            "Unknown error (" \o ToString(e.code) \o "): " \o e.msg

\* fmt::Display for TmdbError
Display_fmt(e) ==
    CASE e.kind = "NetworkError" -> "Network error: " \o e.msg
      [] e.kind = "ParseError" -> "Failed to parse response: " \o e.msg
      [] e.kind = "RateLimitExceeded" -> "API rate limit exceeded"
      [] e.kind = "NotFound" -> "Resource not found"
      [] e.kind = "Unauthorized" -> "Unauthorized: Invalid or missing API key"
      [] e.kind = "ServerError" -> "Server error: " \o ToString(e.code)
      [] e.kind = "BadRequest" -> "Bad request: " \o e.msg
      [] e.kind = "Unknown" ->
            "Unknown error (" \o ToString(e.code) \o "): " \o e.msg

\* impl From<reqwest::Error> for TmdbError
From_reqwest_Error(msg) == NetworkError(msg)

\* impl From<serde_json::Error> for TmdbError
From_serde_json_Error(msg) == ParseError(msg)

from_status_Narrow5xx(status, body) ==
    CASE status = 400 -> BadRequest(body)
      [] status = 401 -> Unauthorized
      [] status = 404 -> NotFound
      [] status = 429 -> RateLimitExceeded
      [] status \in 500..598 -> ServerError(status)
      [] OTHER -> Unknown(status, body)

\* TmdbError::from_status
from_status(status, body) ==
    CASE status = 400 -> BadRequest(body)
      [] status = 401 -> Unauthorized
      [] status = 404 -> NotFound
      [] status = 429 -> RateLimitExceeded
      [] status \in 500..599 -> ServerError(status)
      [] OTHER -> Unknown(status, body)

is_retryable_UnknownToo(e) ==
    e.kind \in {"NetworkError", "RateLimitExceeded", "ServerError"}
    \/ (e.kind = "Unknown" /\ e.code >= 500)

\* TmdbError::is_retryable
is_retryable(e) ==
    e.kind \in {"NetworkError", "RateLimitExceeded", "ServerError"}

(***************************************************************************)
(* handlers.rs: map_error_to_response.                                     *)
(***************************************************************************)
map_error_to_response_EchoBody(error) ==
    CASE error.kind = "NotFound" -> [status |-> 404, body |-> "Resource not found"]
      [] error.kind = "Unauthorized" ->
            [status |-> 401, body |-> "Invalid or missing API key"]
      [] error.kind = "RateLimitExceeded" ->
            [status |-> 429, body |-> "Rate limit exceeded"]
      [] error.kind = "BadRequest" ->
            [status |-> 400, body |-> "Bad request: " \o error.msg]
      [] error.kind = "ServerError" ->
            [status |-> 502, body |-> "Upstream server error"]
      [] error.kind = "NetworkError" ->
            [status |-> 503, body |-> "Network error occurred"]
      [] error.kind = "ParseError" ->
            [status |-> 500, body |-> "Failed to parse response"]
      [] error.kind = "Unknown" ->
            [status |-> 500, body |-> "Unknown error occurred"]

map_error_to_response(error) ==
    CASE error.kind = "NotFound" -> [status |-> 404, body |-> "Resource not found"]
      [] error.kind = "Unauthorized" ->
            [status |-> 401, body |-> "Invalid or missing API key"]
      [] error.kind = "RateLimitExceeded" ->
            [status |-> 429, body |-> "Rate limit exceeded"]
      [] error.kind = "BadRequest" -> [status |-> 400, body |-> "Bad request"]
      [] error.kind = "ServerError" ->
            [status |-> 502, body |-> "Upstream server error"]
      [] error.kind = "NetworkError" ->
            [status |-> 503, body |-> "Network error occurred"]
      [] error.kind = "ParseError" ->
            [status |-> 500, body |-> "Failed to parse response"]
      [] error.kind = "Unknown" ->
            [status |-> 500, body |-> "Unknown error occurred"]

(***************************************************************************)
(* SpecTaxonomy: the initial state draws a function and an input; each     *)
(* action applies its function to the input, up to MaxRepeat times, and    *)
(* appends the result.                                                     *)
(***************************************************************************)
NoUnit == [fn |-> "none"]
NoClient == [impl |-> "none"]
NoBuilder == [phase |-> "none"]
NoRequests == <<>>

UnitInputs ==
    {[fn |-> "from_status", arg |-> [status |-> s, body |-> b], outs |-> <<>>] :
        s \in StatusCodes, b \in Messages}
    \cup {[fn |-> f, arg |-> e, outs |-> <<>>] :
            f \in {"is_retryable", "map_error_to_response", "fmt"},
            e \in TmdbErrors}

InitTaxonomy ==
    /\ unit \in UnitInputs
    /\ client = NoClient
    /\ builder = NoBuilder
    /\ reqs = NoRequests

Apply(fn, out) ==
    /\ unit.fn = fn
    /\ Len(unit.outs) < MaxRepeat
    /\ unit' = [unit EXCEPT !.outs = Append(@, out)]
    /\ UNCHANGED <<client, builder, reqs>>

Apply_from_status ==
    /\ unit.fn = "from_status"
    /\ Apply("from_status", from_status(unit.arg.status, unit.arg.body))

Apply_is_retryable ==
    /\ unit.fn = "is_retryable"
    /\ Apply("is_retryable", is_retryable(unit.arg))

Apply_map_error_to_response ==
    /\ unit.fn = "map_error_to_response"
    /\ Apply("map_error_to_response", map_error_to_response(unit.arg))

Apply_fmt ==
    /\ unit.fn = "fmt"
    /\ Apply("fmt", Display_fmt(unit.arg))

NextTaxonomy ==
    \/ Apply_from_status
    \/ Apply_is_retryable
    \/ Apply_map_error_to_response
    \/ Apply_fmt

SpecTaxonomy == InitTaxonomy /\ [][NextTaxonomy]_vars

(***************************************************************************)
(* C1.  from_status classifies every status 100..599 with any body as the  *)
(* taxonomy's table says: 400 -> BadRequest(body), 401 -> Unauthorized,    *)
(* 404 -> NotFound, 429 -> RateLimitExceeded, 500..599 -> ServerError of   *)
(* that code, anything else -> Unknown(code, body); the result is one of   *)
(* the eight kinds and a repeated call gives an equal result.              *)
(***************************************************************************)
C1_FromStatusTable ==
    unit.fn = "from_status" =>
        \A i \in 1..Len(unit.outs) :
            LET s == unit.arg.status
                b == unit.arg.body
                e == unit.outs[i]
            IN  /\ e.kind \in ErrorKinds
                /\ (s = 400) => e = [kind |-> "BadRequest", msg |-> b]
                /\ (s = 401) => e = [kind |-> "Unauthorized"]
                /\ (s = 404) => e = [kind |-> "NotFound"]
                /\ (s = 429) => e = [kind |-> "RateLimitExceeded"]
                /\ (s >= 500 /\ s <= 599) => e = [kind |-> "ServerError", code |-> s]
                /\ (s \notin {400, 401, 404, 429} /\ ~(s >= 500 /\ s <= 599)) =>
                        e = [kind |-> "Unknown", code |-> s, msg |-> b]
                /\ e = unit.outs[1]

C1_Witness ==
    /\ unit.fn = "from_status"
    /\ unit.arg.status = 599
    /\ unit.arg.body # ""
    /\ Len(unit.outs) = 2
    /\ unit.outs[2].kind = "ServerError"

(***************************************************************************)
(* C2.  is_retryable is true exactly for NetworkError, RateLimitExceeded   *)
(* and ServerError and false for the other five kinds, whatever message    *)
(* or status code the error carries.                                       *)
(***************************************************************************)
C2_RetryablePartition ==
    unit.fn = "is_retryable" =>
        \A i \in 1..Len(unit.outs) :
            /\ unit.arg.kind \in {"NetworkError", "RateLimitExceeded", "ServerError"}
                    => unit.outs[i] = TRUE
            /\ unit.arg.kind \in {"NotFound", "Unauthorized", "BadRequest",
                                  "ParseError", "Unknown"}
                    => unit.outs[i] = FALSE

C2_Witness ==
    /\ unit.fn = "is_retryable"
    /\ unit.arg.kind = "Unknown"
    /\ unit.arg.code = 503
    /\ Len(unit.outs) >= 1
    /\ unit.outs[1] = FALSE

(***************************************************************************)
(* models.rs: the response models.                                         *)
(***************************************************************************)
Movie(id, title, name, overview, poster_path, backdrop_path, vote_average, release_date, media_type) ==
    [id |-> id, title |-> title, name |-> name, overview |-> overview,
     poster_path |-> poster_path, backdrop_path |-> backdrop_path,
     vote_average |-> vote_average, release_date |-> release_date,
     media_type |-> media_type]

TmdbResponse(page, results, total_pages) ==
    [page |-> page, results |-> results, total_pages |-> total_pages]

Video(id, key, site, type, name) ==
    [id |-> id, key |-> key, site |-> site, type |-> type, name |-> name]

VideoResponse(id, results) == [id |-> id, results |-> results]

(***************************************************************************)
(* The HTTP requests a client sends.  Parameters are raw text, as they     *)
(* arrive in the query string or the path; an absent parameter is None.    *)
(***************************************************************************)
RawPages == {None, Some("2"), Some("0"), Some("abc")}
RawQueries == {None, Some(""), Some("matrix")}
RawIds == {"550", "abc"}

HttpRequests ==
    {[route |-> "/api/trending", page |-> p] : p \in RawPages}
    \cup {[route |-> "/api/search", query |-> q, page |-> p] :
            q \in RawQueries, p \in RawPages}
    \cup {[route |-> "/api/movie/{id}/videos", id |-> i] : i \in RawIds}

\* str::parse::<i32>, on the parameter texts above.
parse_i32(s) ==
    CASE s = "0" -> Ok(0)
      [] s = "1" -> Ok(1)
      [] s = "2" -> Ok(2)
      [] s = "550" -> Ok(550)
      [] s = "" -> Err("cannot parse integer from empty string")
      [] OTHER -> Err("invalid digit found in string")

\* Deserialize for Option<i32> (the page field of PageQuery and SearchQuery)
deserialize_page(raw) ==
    IF ~raw.some THEN Ok(None)
    ELSE LET n == parse_i32(raw.val)
         IN  IF n.ok THEN Ok(Some(n.val)) ELSE n

\* axum's answer when an extractor rejects the request
rejection(prefix, msg) == [status |-> 400, body |-> prefix \o msg]

\* Query<PageQuery>
Query_PageQuery(http) ==
    LET page == deserialize_page(http.page)
    IN  IF page.ok THEN Ok([page |-> page.val])
        ELSE Err(rejection("Failed to deserialize query string: ", page.err))

Query_SearchQuery_DefaultQuery(http) ==
    LET page == deserialize_page(http.page)
    IN  IF ~page.ok
        THEN Err(rejection("Failed to deserialize query string: ", page.err))
        ELSE Ok([query |-> unwrap_or(http.query, ""), page |-> page.val])

\* Query<SearchQuery>: query is a required String, page an Option<i32>
Query_SearchQuery(http) ==
    LET page == deserialize_page(http.page)
    IN  IF ~http.query.some
        THEN Err(rejection("Failed to deserialize query string: ",
                           "missing field 'query'"))
        ELSE IF ~page.ok
        THEN Err(rejection("Failed to deserialize query string: ", page.err))
        ELSE Ok([query |-> http.query.val, page |-> page.val])

\* Path<i32>
Path_i32(http) ==
    LET id == parse_i32(http.id)
    IN  IF id.ok THEN id
        ELSE Err(rejection("Invalid URL: ",
                    "Cannot parse '" \o http.id \o "' to a 'i32'"))

(***************************************************************************)
(* One request in the server.  pc is where its handler stands:             *)
(*   idle   no request on the connection                                   *)
(*   send   RealTmdbClient awaits self.client.get(&url).send()             *)
(*   body   RealTmdbClient holds the response head and awaits its body     *)
(*   done   the handler has returned its response                          *)
(* calls lists the contract operations the handler invoked, sent the URLs  *)
(* RealTmdbClient requested, head and body what the upstream answered,     *)
(* result what the contract operation returned.                            *)
(***************************************************************************)
IdleRequest ==
    [pc |-> "idle", http |-> None, calls |-> <<>>, sent |-> <<>>,
     head |-> None, body |-> None, result |-> None, response |-> None]

Requests == DOMAIN reqs

(***************************************************************************)
(* serde's Serialize for the models, as serde_json writes them: a struct   *)
(* is an object whose members are its fields in declaration order, a Vec   *)
(* an array, an Option its value or null.  A number keeps its digits.      *)
(***************************************************************************)
JNull == [t |-> "null"]
JNumber(n) == [t |-> "number", v |-> n]
JString(s) == [t |-> "string", v |-> s]
JArray(items) == [t |-> "array", items |-> items]
JObject(members) == [t |-> "object", members |-> members]

\* Serialize for Option<String> and for Option<f64>
to_json_Option_String(o) == IF o.some THEN JString(o.val) ELSE JNull
to_json_Option_f64(o) == IF o.some THEN JNumber(o.val) ELSE JNull

\* #[derive(Serialize)] struct Movie
to_json_Movie(m) ==
    JObject(<<
        <<"id", JNumber(m.id)>>,
        <<"title", to_json_Option_String(m.title)>>,
        <<"name", to_json_Option_String(m.name)>>,
        <<"overview", to_json_Option_String(m.overview)>>,
        <<"poster_path", to_json_Option_String(m.poster_path)>>,
        <<"backdrop_path", to_json_Option_String(m.backdrop_path)>>,
        <<"vote_average", to_json_Option_f64(m.vote_average)>>,
        <<"release_date", to_json_Option_String(m.release_date)>>,
        <<"media_type", to_json_Option_String(m.media_type)>> >>)

\* #[derive(Serialize)] struct Video; the field r#type is written as "type"
to_json_Video(v) ==
    JObject(<<
        <<"id", JString(v.id)>>,
        <<"key", JString(v.key)>>,
        <<"site", JString(v.site)>>,
        <<"type", JString(v.type)>>,
        <<"name", JString(v.name)>> >>)

to_json_TmdbResponse_Reversed(data) ==
    JObject(<<
        <<"page", JNumber(data.page)>>,
        <<"results",
          JArray([i \in 1..Len(data.results) |->
                    to_json_Movie(data.results[Len(data.results) + 1 - i])])>>,
        <<"total_pages", JNumber(data.total_pages)>> >>)

\* #[derive(Serialize)] struct TmdbResponse
to_json_TmdbResponse(data) ==
    JObject(<<
        <<"page", JNumber(data.page)>>,
        <<"results",
          JArray([i \in 1..Len(data.results) |-> to_json_Movie(data.results[i])])>>,
        <<"total_pages", JNumber(data.total_pages)>> >>)

\* #[derive(Serialize)] struct VideoResponse
to_json_VideoResponse(data) ==
    JObject(<<
        <<"id", JNumber(data.id)>>,
        <<"results",
          JArray([i \in 1..Len(data.results) |-> to_json_Video(data.results[i])])>> >>)

\* Json(response), Json(videos): the model serialized as the 200 response's body
Json(model) ==
    IF "page" \in DOMAIN model THEN to_json_TmdbResponse(model)
    ELSE to_json_VideoResponse(model)

handler_respond_Retrying(rq, res) ==
    IF ~res.ok /\ is_retryable(res.err) /\ Len(rq.calls) < 2
    THEN [rq EXCEPT !.pc = "send",
                    !.calls = Append(@, rq.calls[1]),
                    !.sent = Append(@, rq.sent[1]),
                    !.head = None, !.body = None]
    ELSE [rq EXCEPT !.pc = "done", !.result = Some(res),
                    !.response =
                        Some(IF res.ok THEN [status |-> 200, body |-> Json(res.val)]
                             ELSE map_error_to_response(res.err))]

\* The match on the contract's result that ends each handler
handler_respond(rq, res) ==
    [rq EXCEPT !.pc = "done", !.result = Some(res),
               !.response =
                    Some(IF res.ok THEN [status |-> 200, body |-> Json(res.val)]
                         ELSE map_error_to_response(res.err))]

handler_rejected_Mapped(rq, rej) ==
    [rq EXCEPT !.pc = "done",
               !.response = Some(map_error_to_response(BadRequest(rej.body)))]

\* The extractor rejected the request: axum answers, the handler never runs
handler_rejected(rq, rej) == [rq EXCEPT !.pc = "done", !.response = Some(rej)]

(***************************************************************************)
(* tmdb_client.rs: RealTmdbClient.                                         *)
(***************************************************************************)
ApiKey == "k3y"

\* RealTmdbClient::new
RealTmdbClient_new(api_key) == [impl |-> "RealTmdbClient", api_key |-> api_key]

\* The format!(...) that builds each operation's URL
url_of(api_key, call) ==
    CASE call.op = "get_trending" ->
            "https://api.themoviedb.org/3/trending/all/week?api_key="
                \o api_key \o "&page=" \o ToString(call.page)
      [] call.op = "search_content" ->
            "https://api.themoviedb.org/3/search/multi?api_key=" \o api_key
                \o "&query=" \o call.query \o "&page=" \o ToString(call.page)
                \o "&include_adult=false"
      [] call.op = "get_movie_videos" ->
            "https://api.themoviedb.org/3/movie/" \o ToString(call.movie_id)
                \o "/videos?api_key=" \o api_key

(***************************************************************************)
(* The same URLs character by character, for what reqwest does to them.    *)
(* A text is a sequence of runs: a run of characters that mean nothing in  *)
(* a URL, or a single character that does (? & = # % + and the space).     *)
(***************************************************************************)
\* The format!(...) of each operation, with the query spelled out in runs
url_chars(api_key, call) ==
    CASE call.op = "get_trending" ->
            <<"https://api.themoviedb.org/3/trending/all/week", "?",
              "api_key", "=", api_key, "&", "page", "=", ToString(call.page)>>
      [] call.op = "search_content" ->
            <<"https://api.themoviedb.org/3/search/multi", "?",
              "api_key", "=", api_key, "&", "query", "=">>
                \o call.query
                \o <<"&", "page", "=", ToString(call.page),
                     "&", "include_adult", "=", "false">>
      [] call.op = "get_movie_videos" ->
            <<"https://api.themoviedb.org/3/movie/" \o ToString(call.movie_id)
                \o "/videos", "?", "api_key", "=", api_key>>

\* The position of the first c in chars, 0 when there is none
find(chars, c) ==
    IF \E i \in 1..Len(chars) : chars[i] = c
    THEN CHOOSE i \in 1..Len(chars) :
            chars[i] = c /\ \A j \in 1..(i - 1) : chars[j] # c
    ELSE 0

\* self.client.get(&url): reqwest parses the text with Url::parse.  The
\* query runs from the first ? to the first #, what follows the # is the
\* fragment; in the query a space is written %20 and & = % + stay as they are.
Url_parse(chars) ==
    LET q == find(chars, "?")
        rest == SubSeq(chars, q + 1, Len(chars))
        h == find(rest, "#")
        query == IF h = 0 THEN rest ELSE SubSeq(rest, 1, h - 1)
    IN  [base |-> SubSeq(chars, 1, q - 1),
         query |-> [i \in 1..Len(query) |->
                        IF query[i] = " " THEN "%20" ELSE query[i]],
         fragment |-> IF h = 0 THEN None
                      ELSE Some(SubSeq(rest, h + 1, Len(rest)))]

\* send(): the request line carries the path and the query, never the fragment
request_target(url) == [base |-> url.base, query |-> url.query]

\* Display for Url: the parsed URL written out again
Url_as_str(url) ==
    url.base \o <<"?">> \o url.query
        \o (IF url.fragment.some THEN <<"#">> \o url.fragment.val ELSE <<>>)

\* reqwest::Error's text when send() fails, character by character
send_error_chars(url) ==
    <<"error sending request for url (">> \o Url_as_str(url) \o <<")">>

\* What the upstream may answer: a status line, then a body.
UpstreamStatuses == {101, 200, 204, 304, 400, 401, 403, 404, 429, 500, 599}

JsonPage1 ==
    "{\"page\":1,\"results\":[{\"id\":603,\"title\":\"The Matrix\"}],\"total_pages\":3}"
JsonVideos ==
    "{\"id\":550,\"results\":[{\"id\":\"v1\",\"key\":\"abc\",\"site\":\"YouTube\",\"type\":\"Trailer\",\"name\":\"Official Trailer\"}]}"
NotJson == "<html>502 Bad Gateway</html>"

UpstreamBodies == {"", JsonPage1, JsonVideos, NotJson}

\* A body that breaks off before it is complete
BodyReadError == "error reading a body from connection"

is_success_Below400(status) == status >= 200 /\ status <= 399

\* StatusCode::is_success
is_success(status) == status >= 200 /\ status <= 299

\* serde_json on the body texts above, for Deserialize of TmdbResponse
from_json_TmdbResponse(text) ==
    CASE text = JsonPage1 ->
            Ok(TmdbResponse(1,
                  <<Movie(603, Some("The Matrix"), None, None, None, None, None,
                          None, None)>>,
                  3))
      [] text = JsonVideos -> Err("missing field 'page' at line 1 column 112")
      [] text = "" -> Err("EOF while parsing a value at line 1 column 0")
      [] OTHER -> Err("expected value at line 1 column 1")

\* serde_json on the body texts above, for Deserialize of VideoResponse
from_json_VideoResponse(text) ==
    CASE text = JsonVideos ->
            Ok(VideoResponse(550,
                  <<Video("v1", "abc", "YouTube", "Trailer", "Official Trailer")>>))
      [] text = JsonPage1 ->
            Err("invalid type: integer '603', expected a string at line 1 column 30")
      [] text = "" -> Err("EOF while parsing a value at line 1 column 0")
      [] OTHER -> Err("expected value at line 1 column 1")

from_json(op, text) ==
    IF op = "get_movie_videos" THEN from_json_VideoResponse(text)
    ELSE from_json_TmdbResponse(text)

\* reqwest::Response::text: the body, or the reqwest::Error that broke it off
Response_text(body) == body

\* reqwest::Response::json::<T>: the decoded body, or a reqwest::Error, which
\* is what a body that does not decode is reported as
Response_json(op, body) ==
    IF ~body.ok THEN body
    ELSE LET data == from_json(op, body.val)
         IN  IF data.ok THEN data
             ELSE Err("error decoding response body: " \o data.err)

\* Result<String, _>::unwrap_or_default
unwrap_or_default(res) == IF res.ok THEN res.val ELSE ""

\* reqwest::Error's text when send() fails: it names the URL requested
send_error(url) == "error sending request for url (" \o url \o ")"

on_send_error_Retry(rq, msg) ==
    IF Len(rq.sent) < 2
    THEN [rq EXCEPT !.pc = "send", !.sent = Append(@, rq.sent[1])]
    ELSE handler_respond([rq EXCEPT !.head = Some(Err(msg))],
                         Err(From_reqwest_Error(msg)))

\* self.client.get(&url).send().await? when the transport fails
on_send_error(rq, msg) ==
    handler_respond([rq EXCEPT !.head = Some(Err(msg))],
                    Err(From_reqwest_Error(msg)))

on_error_status_Propagate(rq, body) ==
    LET text == Response_text(body)
    IN  handler_respond([rq EXCEPT !.body = Some(body)],
            IF text.ok THEN Err(from_status(rq.head.val.val, text.val))
            ELSE Err(From_reqwest_Error(text.err)))

\* if !response.status().is_success() { ... return Err(from_status(..)) }
on_error_status(rq, body) ==
    LET status == rq.head.val.val
        text == unwrap_or_default(Response_text(body))
    IN  handler_respond([rq EXCEPT !.body = Some(body)],
                        Err(from_status(status, text)))

on_success_status_Lenient(rq, body) ==
    LET data == Response_json(rq.calls[1].op, body)
    IN  handler_respond([rq EXCEPT !.body = Some(body)],
            IF data.ok THEN Ok(data.val)
            ELSE IF rq.calls[1].op = "get_movie_videos"
            THEN Ok(VideoResponse(rq.calls[1].movie_id, <<>>))
            ELSE Ok(TmdbResponse(rq.calls[1].page, <<>>, 0)))

\* let data = response.json::<T>().await?; Ok(data)
on_success_status(rq, body) ==
    LET data == Response_json(rq.calls[1].op, body)
    IN  handler_respond([rq EXCEPT !.body = Some(body)],
            IF data.ok THEN Ok(data.val)
            ELSE Err(From_reqwest_Error(data.err)))

(***************************************************************************)
(* mock_tmdb_client.rs: MockTmdbClient and its builder.  A HashMap is a    *)
(* function whose domain is the keys inserted.                             *)
(***************************************************************************)
EmptyMap == [k \in {} |-> None]

\* HashMap::insert
insert(map, key, value) ==
    [k \in (DOMAIN map) \cup {key} |-> IF k = key THEN value ELSE map[k]]

\* MockTmdbClient::default_trending_response
default_trending_response(page) ==
    Ok(TmdbResponse(page,
          <<Movie(123, Some("Test Movie 1"), None, Some("A great test movie"),
                  Some("/test1.jpg"), Some("/backdrop1.jpg"), Some("8.5"),
                  Some("2024-01-01"), Some("movie")),
            Movie(456, None, Some("Test Show 1"), Some("A great test show"),
                  Some("/test2.jpg"), Some("/backdrop2.jpg"), Some("7.8"),
                  Some("2024-02-01"), Some("tv"))>>,
          10))

\* MockTmdbClient::default_search_response
default_search_response(query, page) ==
    Ok(TmdbResponse(page,
          <<Movie(789, Some("Search Result for '" \o query \o "'"), None,
                  Some("Matching content"), Some("/search.jpg"),
                  Some("/search_backdrop.jpg"), Some("9.0"), Some("2023-12-01"),
                  Some("movie"))>>,
          5))

\* MockTmdbClient::default_video_response
default_video_response(movie_id) ==
    Ok(VideoResponse(movie_id,
          <<Video("video123", "abc123xyz", "YouTube", "Trailer", "Official Trailer"),
            Video("video456", "def456uvw", "YouTube", "Teaser", "Teaser")>>))

MockTmdbClient_get_trending_DefaultFirst(self, page) ==
    IF self.default_trending.some THEN self.default_trending.val
    ELSE IF page \in DOMAIN self.trending_responses
    THEN self.trending_responses[page]
    ELSE default_trending_response(page)

\* impl TmdbClient for MockTmdbClient: get_trending
MockTmdbClient_get_trending(self, page) ==
    IF page \in DOMAIN self.trending_responses THEN self.trending_responses[page]
    ELSE IF self.default_trending.some THEN self.default_trending.val
    ELSE default_trending_response(page)

\* impl TmdbClient for MockTmdbClient: search_content
MockTmdbClient_search_content(self, query, page) ==
    LET key == <<query, page>>
    IN  IF key \in DOMAIN self.search_responses THEN self.search_responses[key]
        ELSE IF self.default_search.some THEN self.default_search.val
        ELSE default_search_response(query, page)

\* impl TmdbClient for MockTmdbClient: get_movie_videos
MockTmdbClient_get_movie_videos(self, movie_id) ==
    IF movie_id \in DOMAIN self.video_responses THEN self.video_responses[movie_id]
    ELSE IF self.default_video.some THEN self.default_video.val
    ELSE default_video_response(movie_id)

MockTmdbClient_call(self, call) ==
    CASE call.op = "get_trending" -> MockTmdbClient_get_trending(self, call.page)
      [] call.op = "search_content" ->
            MockTmdbClient_search_content(self, call.query, call.page)
      [] call.op = "get_movie_videos" ->
            MockTmdbClient_get_movie_videos(self, call.movie_id)

\* MockTmdbClientBuilder::new; error is the TmdbError value the test holds,
\* n the number of with_* calls made so far, log those calls in order
MockTmdbClientBuilder_new(error) ==
    [phase |-> "building", n |-> 0, error |-> error, log |-> <<>>,
     trending_responses |-> EmptyMap, search_responses |-> EmptyMap,
     video_responses |-> EmptyMap, default_trending |-> None,
     default_search |-> None, default_video |-> None]

\* The client a builder (or MockTmdbClient::new) yields
MockTmdbClient_of(b) ==
    [impl |-> "MockTmdbClient",
     trending_responses |-> b.trending_responses,
     search_responses |-> b.search_responses,
     video_responses |-> b.video_responses,
     default_trending |-> b.default_trending,
     default_search |-> b.default_search,
     default_video |-> b.default_video]

\* The values the tests configure the double with.
TestErrors ==
    {NetworkError("timeout"), NetworkError(""), ParseError("EOF"), ParseError(""),
     RateLimitExceeded, NotFound, Unauthorized, ServerError(500), ServerError(503),
     BadRequest("invalid"), BadRequest(""), Unknown(418, "Teapot"), Unknown(302, "")}
MockPages == {1, 2}
MockSearchKeys == {<<"matrix", 1>>, <<"matrix", 2>>}
MockMovieIds == {550}
custom_response == TmdbResponse(3, <<>>, 5)
custom_videos == VideoResponse(99999, <<>>)

Building == builder.phase = "building" /\ builder.n < MaxBuilderCalls

with_trending_response(page, response) ==
    /\ Building
    /\ builder' = [builder EXCEPT !.n = @ + 1,
                        !.trending_responses = insert(@, page, response),
                        !.log = Append(@, [method |-> "with_trending_response",
                                           key |-> page, response |-> response])]
    /\ UNCHANGED <<unit, client, reqs>>

with_default_trending(response) ==
    /\ Building
    /\ builder' = [builder EXCEPT !.n = @ + 1, !.default_trending = Some(response),
                        !.log = Append(@, [method |-> "with_default_trending",
                                           response |-> response])]
    /\ UNCHANGED <<unit, client, reqs>>

with_search_response(query, page, response) ==
    /\ Building
    /\ builder' = [builder EXCEPT !.n = @ + 1,
                        !.search_responses = insert(@, <<query, page>>, response),
                        !.log = Append(@, [method |-> "with_search_response",
                                           key |-> <<query, page>>,
                                           response |-> response])]
    /\ UNCHANGED <<unit, client, reqs>>

with_default_search(response) ==
    /\ Building
    /\ builder' = [builder EXCEPT !.n = @ + 1, !.default_search = Some(response),
                        !.log = Append(@, [method |-> "with_default_search",
                                           response |-> response])]
    /\ UNCHANGED <<unit, client, reqs>>

with_video_response(movie_id, response) ==
    /\ Building
    /\ builder' = [builder EXCEPT !.n = @ + 1,
                        !.video_responses = insert(@, movie_id, response),
                        !.log = Append(@, [method |-> "with_video_response",
                                           key |-> movie_id, response |-> response])]
    /\ UNCHANGED <<unit, client, reqs>>

with_default_video(response) ==
    /\ Building
    /\ builder' = [builder EXCEPT !.n = @ + 1, !.default_video = Some(response),
                        !.log = Append(@, [method |-> "with_default_video",
                                           response |-> response])]
    /\ UNCHANGED <<unit, client, reqs>>

with_trending_error(page, error) == with_trending_response(page, Err(error))

with_search_error(query, page, error) ==
    with_search_response(query, page, Err(error))

with_video_error(movie_id, error) == with_video_response(movie_id, Err(error))

\* The builder consumed by build(): what remains is the record of its calls
Built(log) == [phase |-> "built", log |-> log]

\* MockTmdbClientBuilder::build, and AppState { tmdb_client: Arc::new(client) }
build ==
    /\ builder.phase = "building"
    /\ client' = MockTmdbClient_of(builder)
    /\ builder' = Built(builder.log)
    /\ UNCHANGED <<unit, reqs>>

\* MockTmdbClient::new (create_test_app): the double with nothing configured
MockTmdbClient_new ==
    /\ builder.phase = "building"
    /\ builder.n = 0
    /\ client' = MockTmdbClient_of(MockTmdbClientBuilder_new(builder.error))
    /\ builder' = Built(<<>>)
    /\ UNCHANGED <<unit, reqs>>

(***************************************************************************)
(* handlers.rs: the three handlers.  A handler action takes a request off  *)
(* an idle connection, runs the extractors, and on success invokes the     *)
(* contract operation: RealTmdbClient issues its network request and       *)
(* suspends, MockTmdbClient answers at once and the handler responds.      *)
(***************************************************************************)
\* state.tmdb_client.<op>(..): dispatch on the implementation behind the Arc
TmdbClient_call(rq, call) ==
    LET invoked == [rq EXCEPT !.calls = Append(@, call)]
    IN  IF client.impl = "RealTmdbClient"
        THEN [invoked EXCEPT !.pc = "send",
                             !.sent = Append(@, url_of(client.api_key, call))]
        ELSE handler_respond(invoked, MockTmdbClient_call(client, call))

Accept(r, http) ==
    /\ client.impl # "none"
    /\ reqs[r].pc = "idle"
    /\ UNCHANGED <<unit, client, builder>>

get_trending_movies(r, http) ==
    /\ http.route = "/api/trending"
    /\ Accept(r, http)
    /\ LET rq == [IdleRequest EXCEPT !.http = Some(http)]
           params == Query_PageQuery(http)
       IN  reqs' = [reqs EXCEPT ![r] =
                IF ~params.ok THEN handler_rejected(rq, params.err)
                ELSE LET page == unwrap_or(params.val.page, 1)
                     IN  TmdbClient_call(rq, [op |-> "get_trending", page |-> page])]

search_content(r, http) ==
    /\ http.route = "/api/search"
    /\ Accept(r, http)
    /\ LET rq == [IdleRequest EXCEPT !.http = Some(http)]
           params == Query_SearchQuery(http)
       IN  reqs' = [reqs EXCEPT ![r] =
                IF ~params.ok THEN handler_rejected(rq, params.err)
                ELSE LET page == unwrap_or(params.val.page, 1)
                     IN  TmdbClient_call(rq,
                            [op |-> "search_content", query |-> params.val.query,
                             page |-> page])]

get_movie_videos(r, http) ==
    /\ http.route = "/api/movie/{id}/videos"
    /\ Accept(r, http)
    /\ LET rq == [IdleRequest EXCEPT !.http = Some(http)]
           id == Path_i32(http)
       IN  reqs' = [reqs EXCEPT ![r] =
                IF ~id.ok THEN handler_rejected(rq, id.err)
                ELSE TmdbClient_call(rq,
                        [op |-> "get_movie_videos", movie_id |-> id.val])]

\* send().await fails before any response is obtained
RealTmdbClient_send_fails(r) ==
    /\ reqs[r].pc = "send"
    /\ reqs' = [reqs EXCEPT ![r] =
            on_send_error(@, send_error(@.sent[Len(@.sent)]))]
    /\ UNCHANGED <<unit, client, builder>>

RealTmdbClient_send_responds_SharedSlot(r, status) ==
    /\ reqs[r].pc = "send"
    /\ reqs' = [q \in DOMAIN reqs |->
                    IF reqs[q].pc = "send"
                    THEN [reqs[q] EXCEPT !.pc = "body", !.head = Some(Ok(status))]
                    ELSE reqs[q]]
    /\ UNCHANGED <<unit, client, builder>>

\* send().await yields a response: its status is known, its body is to come
RealTmdbClient_send_responds(r, status) ==
    /\ reqs[r].pc = "send"
    /\ reqs' = [reqs EXCEPT ![r] = [@ EXCEPT !.pc = "body",
                                             !.head = Some(Ok(status))]]
    /\ UNCHANGED <<unit, client, builder>>

\* the body of a response whose status is not a success
RealTmdbClient_error_status(r, body) ==
    /\ reqs[r].pc = "body"
    /\ ~is_success(reqs[r].head.val.val)
    /\ reqs' = [reqs EXCEPT ![r] = on_error_status(@, body)]
    /\ UNCHANGED <<unit, client, builder>>

RealTmdbClient_success_status_Serialized(r, body) ==
    /\ reqs[r].pc = "body"
    /\ is_success(reqs[r].head.val.val)
    /\ \A q \in DOMAIN reqs \ {r} : reqs[q].pc \notin {"send", "body"}
    /\ reqs' = [reqs EXCEPT ![r] = on_success_status(@, body)]
    /\ UNCHANGED <<unit, client, builder>>

\* the body of a response whose status is a success
RealTmdbClient_success_status(r, body) ==
    /\ reqs[r].pc = "body"
    /\ is_success(reqs[r].head.val.val)
    /\ reqs' = [reqs EXCEPT ![r] = on_success_status(@, body)]
    /\ UNCHANGED <<unit, client, builder>>

\* The response has gone out; the connection takes the next request
Close(r) ==
    /\ reqs[r].pc = "done"
    /\ reqs' = [reqs EXCEPT ![r] = IdleRequest]
    /\ UNCHANGED <<unit, client, builder>>

BodyOutcomes == {Ok(b) : b \in UpstreamBodies} \cup {Err(BodyReadError)}

Serve ==
    \/ \E r \in Requests, http \in HttpRequests : get_trending_movies(r, http)
    \/ \E r \in Requests, http \in HttpRequests : search_content(r, http)
    \/ \E r \in Requests, http \in HttpRequests : get_movie_videos(r, http)
    \/ \E r \in Requests : Close(r)

Upstream ==
    \/ \E r \in Requests : RealTmdbClient_send_fails(r)
    \/ \E r \in Requests, status \in UpstreamStatuses :
            RealTmdbClient_send_responds(r, status)
    \/ \E r \in Requests, body \in BodyOutcomes :
            RealTmdbClient_error_status(r, body)
    \/ \E r \in Requests, body \in BodyOutcomes :
            RealTmdbClient_success_status(r, body)

(***************************************************************************)
(* Spec: the gateway with the live client behind it.                       *)
(***************************************************************************)
Init ==
    /\ unit = NoUnit
    /\ client = RealTmdbClient_new(ApiKey)
    /\ builder = NoBuilder
    /\ reqs = [r \in 1..MaxRequests |-> IdleRequest]

Next == Serve \/ Upstream

Spec == Init /\ [][Next]_vars

(***************************************************************************)
(* SpecMock: a test builds a double, wraps it in the AppState and sends    *)
(* requests to the test server one after another.                          *)
(***************************************************************************)
InitMock ==
    /\ unit = NoUnit
    /\ client = NoClient
    /\ builder \in {MockTmdbClientBuilder_new(e) : e \in TestErrors}
    /\ reqs = <<IdleRequest>>

\* The responses a test hands to the builder: its custom model or its error
TestResults(custom) ==
    IF builder.phase = "building" THEN {Ok(custom), Err(builder.error)} ELSE {}
TestError == IF builder.phase = "building" THEN {builder.error} ELSE {}

Configure ==
    \/ \E p \in MockPages, res \in TestResults(custom_response) :
            with_trending_response(p, res)
    \/ \E res \in TestResults(custom_response) : with_default_trending(res)
    \/ \E k \in MockSearchKeys, res \in TestResults(custom_response) :
            with_search_response(k[1], k[2], res)
    \/ \E res \in TestResults(custom_response) : with_default_search(res)
    \/ \E id \in MockMovieIds, res \in TestResults(custom_videos) :
            with_video_response(id, res)
    \/ \E res \in TestResults(custom_videos) : with_default_video(res)
    \/ \E p \in MockPages, e \in TestError : with_trending_error(p, e)
    \/ \E k \in MockSearchKeys, e \in TestError : with_search_error(k[1], k[2], e)
    \/ \E id \in MockMovieIds, e \in TestError : with_video_error(id, e)
    \/ build
    \/ MockTmdbClient_new

NextMock == Configure \/ Serve

SpecMock == InitMock /\ [][NextMock]_vars

(***************************************************************************)
(* SpecUrl: RealTmdbClient builds the URL of one contract call and hands   *)
(* it to reqwest, which parses it and puts it on the wire.                 *)
(***************************************************************************)
QueryTexts ==
    {<<>>, <<"matrix">>, <<"the", " ", "matrix">>, <<"a", "&", "b">>,
     <<"x", "=", "y">>, <<"c", "#", "d">>, <<"50", "%", "25">>, <<"a", "+", "b">>,
     <<"fast", "&", "page", "=", "9">>}
UrlPages == {0, 1, 2, 3}
UrlMovieIds == {550, 551}

UrlCalls ==
    {[op |-> "get_trending", page |-> p] : p \in UrlPages}
    \cup {[op |-> "search_content", query |-> q, page |-> p] :
            q \in QueryTexts, p \in UrlPages}
    \cup {[op |-> "get_movie_videos", movie_id |-> id] : id \in UrlMovieIds}

\* Statuses and bodies of the upstream's answer to the call
UrlStatuses == {302, 400, 401, 500}
UrlBodies == {<<>>, <<"{\"status_message\":\"Invalid API key\"}">>}

InitUrl ==
    /\ unit \in {[fn |-> "url", call |-> c, url |-> None, parsed |-> None,
                  target |-> None, result |-> None] : c \in UrlCalls}
    /\ client = RealTmdbClient_new(ApiKey)
    /\ builder = NoBuilder
    /\ reqs = NoRequests

\* let url = format!(...)
RealTmdbClient_format ==
    /\ ~unit.url.some
    /\ unit' = [unit EXCEPT !.url = Some(url_chars(client.api_key, unit.call))]
    /\ UNCHANGED <<client, builder, reqs>>

\* self.client.get(&url).send()
RealTmdbClient_get ==
    /\ unit.url.some
    /\ ~unit.target.some
    /\ LET url == Url_parse(unit.url.val)
       IN  unit' = [unit EXCEPT !.parsed = Some(url),
                                !.target = Some(request_target(url))]
    /\ UNCHANGED <<client, builder, reqs>>

Sent == unit.target.some /\ ~unit.result.some

\* send().await? fails: From<reqwest::Error> keeps the error's text
RealTmdbClient_get_fails ==
    /\ Sent
    /\ unit' = [unit EXCEPT !.result =
            Some(Err(From_reqwest_Error(send_error_chars(unit.parsed.val))))]
    /\ UNCHANGED <<client, builder, reqs>>

\* the response has an error status: from_status(status, body)
RealTmdbClient_get_error_status(status, body) ==
    /\ Sent
    /\ unit' = [unit EXCEPT !.result = Some(Err(from_status(status, body)))]
    /\ UNCHANGED <<client, builder, reqs>>

\* the response is a success whose body does not decode
RealTmdbClient_get_undecodable(text) ==
    /\ Sent
    /\ LET data == Response_json(unit.call.op, Ok(text))
       IN  /\ ~data.ok
           /\ unit' = [unit EXCEPT !.result =
                    Some(Err(From_reqwest_Error(<<data.err>>)))]
    /\ UNCHANGED <<client, builder, reqs>>

NextUrl ==
    \/ RealTmdbClient_format
    \/ RealTmdbClient_get
    \/ RealTmdbClient_get_fails
    \/ \E status \in UrlStatuses, body \in UrlBodies :
            RealTmdbClient_get_error_status(status, body)
    \/ \E text \in {"", NotJson} : RealTmdbClient_get_undecodable(text)

SpecUrl == InitUrl /\ [][NextUrl]_vars

(***************************************************************************)
(* SpecConc: the gateway in front of RealTmdbClient with MaxConcurrent     *)
(* connections, whose handlers tokio runs interleaved at their await       *)
(* points.  The handlers and the client are those of Spec; the requests    *)
(* and the upstream's answers are drawn from smaller sets.                 *)
(***************************************************************************)
ConcHttpRequests ==
    {[route |-> "/api/trending", page |-> None],
     [route |-> "/api/search", query |-> Some("matrix"), page |-> Some("2")],
     [route |-> "/api/movie/{id}/videos", id |-> "550"],
     [route |-> "/api/movie/{id}/videos", id |-> "abc"]}
ConcStatuses == {200, 404, 500}
ConcBodyOutcomes == {Ok(JsonPage1), Ok(NotJson), Err(BodyReadError)}

InitConc ==
    /\ unit = NoUnit
    /\ client = RealTmdbClient_new(ApiKey)
    /\ builder = NoBuilder
    /\ reqs = [r \in 1..MaxConcurrent |-> IdleRequest]

ServeConc ==
    \/ \E r \in Requests, http \in ConcHttpRequests : get_trending_movies(r, http)
    \/ \E r \in Requests, http \in ConcHttpRequests : search_content(r, http)
    \/ \E r \in Requests, http \in ConcHttpRequests : get_movie_videos(r, http)
    \/ \E r \in Requests : Close(r)

UpstreamConc ==
    \/ \E r \in Requests : RealTmdbClient_send_fails(r)
    \/ \E r \in Requests, status \in ConcStatuses :
            RealTmdbClient_send_responds(r, status)
    \/ \E r \in Requests, body \in ConcBodyOutcomes :
            RealTmdbClient_error_status(r, body)
    \/ \E r \in Requests, body \in ConcBodyOutcomes :
            RealTmdbClient_success_status(r, body)

NextConc == ServeConc \/ UpstreamConc

SpecConc == InitConc /\ [][NextConc]_vars

(***************************************************************************)
(* SpecLive: SpecConc where the upstream call of the request on the first  *)
(* connection completes: whenever that call is awaiting send() or the      *)
(* body, the outcome arrives and tokio resumes the handler.  Nothing is    *)
(* assumed of the other connections, whose calls may stay pending for      *)
(* ever.                                                                   *)
(***************************************************************************)
LiveConnection == 1

\* The await points of one call: send() resolving, then the body
UpstreamOf(r) ==
    \/ RealTmdbClient_send_fails(r)
    \/ \E status \in ConcStatuses : RealTmdbClient_send_responds(r, status)
    \/ \E body \in ConcBodyOutcomes : RealTmdbClient_error_status(r, body)
    \/ \E body \in ConcBodyOutcomes : RealTmdbClient_success_status(r, body)

SpecLive == InitConc /\ [][NextConc]_vars /\ WF_vars(UpstreamOf(LiveConnection))

(***************************************************************************)
(* What the claims below read off a request.                               *)
(***************************************************************************)
RouteOf(rq) == rq.http.val.route
Failed(rq) == rq.pc = "done" /\ rq.result.some /\ ~rq.result.val.ok
Returned(rq) == rq.pc = "done" /\ rq.result.some
GotStatus(rq) == rq.head.some /\ rq.head.val.ok
OpOfRoute(route) ==
    CASE route = "/api/trending" -> "get_trending"
      [] route = "/api/search" -> "search_content"
      [] route = "/api/movie/{id}/videos" -> "get_movie_videos"
Extracted(http) ==
    CASE http.route = "/api/trending" -> Query_PageQuery(http).ok
      [] http.route = "/api/search" -> Query_SearchQuery(http).ok
      [] http.route = "/api/movie/{id}/videos" -> Path_i32(http).ok

(***************************************************************************)
(* C3.  The response to a failed contract call depends on the error's      *)
(* variant alone and is the dispatch table's pair for it: NotFound 404     *)
(* "Resource not found", Unauthorized 401 "Invalid or missing API key",    *)
(* RateLimitExceeded 429 "Rate limit exceeded", BadRequest 400 "Bad        *)
(* request", ServerError 502 "Upstream server error", NetworkError 503     *)
(* "Network error occurred", ParseError 500 "Failed to parse response",    *)
(* Unknown 500 "Unknown error occurred", on every route and for every      *)
(* payload; map_error_to_response applied on its own gives the same pair.  *)
(***************************************************************************)
C3_Pair(kind, pair) ==
    /\ kind = "NotFound" => pair = [status |-> 404, body |-> "Resource not found"]
    /\ kind = "Unauthorized" =>
            pair = [status |-> 401, body |-> "Invalid or missing API key"]
    /\ kind = "RateLimitExceeded" =>
            pair = [status |-> 429, body |-> "Rate limit exceeded"]
    /\ kind = "BadRequest" => pair = [status |-> 400, body |-> "Bad request"]
    /\ kind = "ServerError" =>
            pair = [status |-> 502, body |-> "Upstream server error"]
    /\ kind = "NetworkError" =>
            pair = [status |-> 503, body |-> "Network error occurred"]
    /\ kind = "ParseError" =>
            pair = [status |-> 500, body |-> "Failed to parse response"]
    /\ kind = "Unknown" => pair = [status |-> 500, body |-> "Unknown error occurred"]

C3_DispatchByVariant ==
    /\ \A r \in Requests :
            Failed(reqs[r]) =>
                /\ reqs[r].response.some
                /\ reqs[r].result.val.err.kind \in ErrorKinds
                /\ C3_Pair(reqs[r].result.val.err.kind, reqs[r].response.val)
    /\ unit.fn = "map_error_to_response" =>
            \A i \in 1..Len(unit.outs) : C3_Pair(unit.arg.kind, unit.outs[i])

C3_Witness ==
    \E r \in Requests :
        /\ Failed(reqs[r])
        /\ RouteOf(reqs[r]) = "/api/movie/{id}/videos"
        /\ reqs[r].result.val.err = BadRequest("invalid")
        /\ reqs[r].response.val = [status |-> 400, body |-> "Bad request"]

(***************************************************************************)
(* C4.  In the live client, a 2xx response whose body does not decode      *)
(* into the operation's model makes the operation return ParseError, and   *)
(* the gateway answer 500 "Failed to parse response".                      *)
(***************************************************************************)
C4_DecodeFailureIsParse ==
    \A r \in Requests :
        LET rq == reqs[r]
        IN  (/\ Returned(rq)
             /\ GotStatus(rq)
             /\ is_success(rq.head.val.val)
             /\ rq.body.val.ok
             /\ ~from_json(rq.calls[1].op, rq.body.val.val).ok)
            => /\ ~rq.result.val.ok
               /\ rq.result.val.err.kind = "ParseError"
               /\ rq.response.val =
                    [status |-> 500, body |-> "Failed to parse response"]

(***************************************************************************)
(* C5.  In the live client, a transport failure before any response makes *)
(* the operation return NetworkError at once; an invocation issues exactly *)
(* one network request and never a second one.                             *)
(***************************************************************************)
C5_TransportFailureNoRetry ==
    \A r \in Requests :
        LET rq == reqs[r]
        IN  /\ Len(rq.sent) = Len(rq.calls)
            /\ Len(rq.sent) <= 1
            /\ (rq.head.some /\ ~rq.head.val.ok) =>
                    /\ rq.pc = "done"
                    /\ rq.result = Some(Err([kind |-> "NetworkError",
                                             msg |-> rq.head.val.err]))
                    /\ Len(rq.sent) = 1

C5_Witness ==
    \E r \in Requests :
        /\ reqs[r].pc = "done"
        /\ reqs[r].head.some /\ ~reqs[r].head.val.ok
        /\ RouteOf(reqs[r]) = "/api/search"
        /\ reqs[r].result.val.err.kind = "NetworkError"
        /\ Len(reqs[r].sent) = 1

(***************************************************************************)
(* C6.  In the live client, a response whose status is not 2xx makes the   *)
(* operation return from_status(status, body), body being the response's   *)
(* text or the empty string when it cannot be read; an unreadable body     *)
(* never turns the error into NetworkError or ParseError, and no model is  *)
(* returned.                                                               *)
(***************************************************************************)
C6_ErrorStatusClassified ==
    \A r \in Requests :
        LET rq == reqs[r]
        IN  (Returned(rq) /\ GotStatus(rq) /\ ~is_success(rq.head.val.val)) =>
                LET text == IF rq.body.val.ok THEN rq.body.val.val ELSE ""
                IN  /\ ~rq.result.val.ok
                    /\ rq.result.val.err = from_status(rq.head.val.val, text)
                    /\ rq.result.val.err.kind \notin {"NetworkError", "ParseError"}

C6_Witness ==
    \E r \in Requests :
        /\ Returned(reqs[r])
        /\ GotStatus(reqs[r])
        /\ reqs[r].head.val.val = 400
        /\ ~reqs[r].body.val.ok
        /\ reqs[r].result.val = Err(BadRequest(""))

(***************************************************************************)
(* C7.  As claimed: for a page request with page >= 1, get_trending and    *)
(* search_content return either an error or a TmdbResponse whose page is   *)
(* the page requested.                                                     *)
(***************************************************************************)
PageCall(rq) ==
    /\ Returned(rq)
    /\ rq.calls[1].op \in {"get_trending", "search_content"}
    /\ rq.calls[1].page >= 1

C7_PageEchoed ==
    \A r \in Requests :
        (PageCall(reqs[r]) /\ reqs[r].result.val.ok) =>
            reqs[r].result.val.val.page = reqs[r].calls[1].page

(***************************************************************************)
(* C7, amended.  For a page request with page >= 1, get_trending and       *)
(* search_content return exactly one of a TmdbResponse and an error.  The  *)
(* live client's TmdbResponse is the decoded body of the upstream's 2xx    *)
(* response, so its page is the page the upstream wrote; the double's is   *)
(* the response configured for the input or as the default, and has the    *)
(* requested page when neither is configured.                              *)
(***************************************************************************)
C7_Configured(call) ==
    IF call.op = "get_trending"
    THEN IF call.page \in DOMAIN client.trending_responses
         THEN Some(client.trending_responses[call.page])
         ELSE client.default_trending
    ELSE IF <<call.query, call.page>> \in DOMAIN client.search_responses
         THEN Some(client.search_responses[<<call.query, call.page>>])
         ELSE client.default_search

C7_PageOfSource ==
    \A r \in Requests :
        LET rq == reqs[r]
        IN  PageCall(rq) =>
                /\ DOMAIN rq.result.val \in {{"ok", "val"}, {"ok", "err"}}
                /\ rq.result.val.ok <=> "val" \in DOMAIN rq.result.val
                /\ rq.result.val.ok =>
                        IF client.impl = "RealTmdbClient"
                        THEN /\ GotStatus(rq)
                             /\ is_success(rq.head.val.val)
                             /\ rq.body.val.ok
                             /\ from_json_TmdbResponse(rq.body.val.val) =
                                    Ok(rq.result.val.val)
                        ELSE IF C7_Configured(rq.calls[1]).some
                        THEN rq.result.val = C7_Configured(rq.calls[1]).val
                        ELSE rq.result.val.val.page = rq.calls[1].page

C7_Witness ==
    \E r \in Requests :
        /\ PageCall(reqs[r])
        /\ reqs[r].calls[1].page = 2
        /\ reqs[r].result.val.ok
        /\ reqs[r].result.val.val.page = 1

(***************************************************************************)
(* C8.  A search request without a query parameter is answered with a      *)
(* 4xx status, not 200, and no contract operation is invoked for it.       *)
(***************************************************************************)
C8_MissingQueryRejected ==
    \A r \in Requests :
        LET rq == reqs[r]
        IN  (rq.pc # "idle" /\ RouteOf(rq) = "/api/search"
                /\ ~rq.http.val.query.some) =>
                /\ rq.pc = "done"
                /\ rq.response.val.status \in 400..499
                /\ rq.calls = <<>>
                /\ rq.sent = <<>>
                /\ ~rq.result.some

C8_Witness ==
    \E r \in Requests :
        /\ reqs[r].pc = "done"
        /\ RouteOf(reqs[r]) = "/api/search"
        /\ reqs[r].http.val = [route |-> "/api/search", query |-> None, page |-> None]
        /\ reqs[r].response.val.status = 400
        /\ reqs[r].calls = <<>>

(***************************************************************************)
(* C9.  The search route invokes search_content only with a non-empty      *)
(* query: a request whose query parameter is present and empty is          *)
(* answered 400 before the contract is invoked.                            *)
(***************************************************************************)
C9_EmptyQueryRejected ==
    \A r \in Requests :
        LET rq == reqs[r]
        IN  /\ \A i \in 1..Len(rq.calls) :
                    rq.calls[i].op = "search_content" => rq.calls[i].query # ""
            /\ (rq.pc # "idle" /\ RouteOf(rq) = "/api/search"
                    /\ rq.http.val.query = Some("")) =>
                    /\ rq.pc = "done"
                    /\ rq.response.val.status = 400
                    /\ rq.calls = <<>>

(***************************************************************************)
(* C10.  A request whose parameters are extracted has its route's contract *)
(* operation invoked exactly once, and no other operation, from the moment *)
(* the handler runs to the response, also when the result is a retryable   *)
(* error; a request whose parameters are rejected has none invoked.        *)
(***************************************************************************)
C10_InvokedExactlyOnce ==
    \A r \in Requests :
        LET rq == reqs[r]
        IN  rq.pc # "idle" =>
                IF Extracted(rq.http.val)
                THEN /\ Len(rq.calls) = 1
                     /\ rq.calls[1].op = OpOfRoute(RouteOf(rq))
                ELSE rq.calls = <<>>

C10_Witness ==
    \E r \in Requests :
        /\ Failed(reqs[r])
        /\ is_retryable(reqs[r].result.val.err)
        /\ reqs[r].result.val.err.kind = "ServerError"
        /\ RouteOf(reqs[r]) = "/api/trending"
        /\ Len(reqs[r].calls) = 1

(***************************************************************************)
(* C11.  On the trending and search routes the page handed to the contract *)
(* operation is 1 when the request carries no page parameter, and the      *)
(* number the page parameter spells when it carries one.                   *)
(***************************************************************************)
C11_Number == [text \in {"0", "2"} |-> IF text = "0" THEN 0 ELSE 2]

C11_PageDefaultsToOne ==
    \A r \in Requests :
        LET rq == reqs[r]
        IN  (/\ rq.pc # "idle"
             /\ RouteOf(rq) \in {"/api/trending", "/api/search"}
             /\ rq.calls # <<>>) =>
                IF rq.http.val.page.some
                THEN /\ rq.http.val.page.val \in DOMAIN C11_Number
                     /\ rq.calls[1].page = C11_Number[rq.http.val.page.val]
                ELSE rq.calls[1].page = 1

C11_Witness ==
    \E r \in Requests :
        /\ reqs[r].pc = "done"
        /\ reqs[r].http.val =
                [route |-> "/api/search", query |-> Some("matrix"), page |-> None]
        /\ reqs[r].calls = <<[op |-> "search_content", query |-> "matrix", page |-> 1]>>

(***************************************************************************)
(* C12.  Whenever the contract operation returns a model the handler       *)
(* responds 200 with that model: the body read back as JSON has the        *)
(* model's page, total_pages and id and the model's results, item for item *)
(* in the model's order; and a 200 response is sent in no other case.      *)
(***************************************************************************)
C12_Member(object, name) ==
    LET i == CHOOSE i \in 1..Len(object.members) : object.members[i][1] = name
    IN  object.members[i][2]
C12_Names(object) == [i \in 1..Len(object.members) |-> object.members[i][1]]
C12_Option(value) == IF value.t = "null" THEN None ELSE Some(value.v)

C12_ReadMovie(object) ==
    Movie(C12_Member(object, "id").v,
          C12_Option(C12_Member(object, "title")),
          C12_Option(C12_Member(object, "name")),
          C12_Option(C12_Member(object, "overview")),
          C12_Option(C12_Member(object, "poster_path")),
          C12_Option(C12_Member(object, "backdrop_path")),
          C12_Option(C12_Member(object, "vote_average")),
          C12_Option(C12_Member(object, "release_date")),
          C12_Option(C12_Member(object, "media_type")))

C12_ReadVideo(object) ==
    Video(C12_Member(object, "id").v, C12_Member(object, "key").v,
          C12_Member(object, "site").v, C12_Member(object, "type").v,
          C12_Member(object, "name").v)

C12_Read(op, body) ==
    LET items == C12_Member(body, "results").items
    IN  IF op = "get_movie_videos"
        THEN VideoResponse(C12_Member(body, "id").v,
                           [i \in 1..Len(items) |-> C12_ReadVideo(items[i])])
        ELSE TmdbResponse(C12_Member(body, "page").v,
                          [i \in 1..Len(items) |-> C12_ReadMovie(items[i])],
                          C12_Member(body, "total_pages").v)

C12_SuccessIsTheModel ==
    \A r \in Requests :
        LET rq == reqs[r]
        IN  rq.pc = "done" =>
                /\ (rq.result.some /\ rq.result.val.ok) =>
                        /\ rq.response.val.status = 200
                        /\ rq.response.val.body.t = "object"
                        /\ C12_Names(rq.response.val.body) =
                                IF rq.calls[1].op = "get_movie_videos"
                                THEN <<"id", "results">>
                                ELSE <<"page", "results", "total_pages">>
                        /\ C12_Read(rq.calls[1].op, rq.response.val.body) =
                                rq.result.val.val
                /\ rq.response.val.status = 200 =>
                        rq.result.some /\ rq.result.val.ok

C12_Witness ==
    \E r \in Requests :
        /\ reqs[r].pc = "done"
        /\ reqs[r].result = Some(default_trending_response(2))
        /\ reqs[r].response.val.status = 200
        /\ LET items == C12_Member(reqs[r].response.val.body, "results").items
           IN  /\ Len(items) = 2
               /\ C12_Member(items[1], "id").v = 123
               /\ C12_Member(items[2], "id").v = 456
               /\ C12_Member(items[2], "title") = JNull

(***************************************************************************)
(* C13.  As claimed: every response other than 200 is one of the eight     *)
(* (status, message) pairs of the dispatch table, also for a request       *)
(* rejected at parameter extraction.                                       *)
(***************************************************************************)
C13_Table ==
    {[status |-> 404, body |-> "Resource not found"],
     [status |-> 401, body |-> "Invalid or missing API key"],
     [status |-> 429, body |-> "Rate limit exceeded"],
     [status |-> 400, body |-> "Bad request"],
     [status |-> 502, body |-> "Upstream server error"],
     [status |-> 503, body |-> "Network error occurred"],
     [status |-> 500, body |-> "Failed to parse response"],
     [status |-> 500, body |-> "Unknown error occurred"]}

C13_EightPairsOnly ==
    \A r \in Requests :
        (reqs[r].pc = "done" /\ reqs[r].response.val.status # 200) =>
            reqs[r].response.val \in C13_Table

(***************************************************************************)
(* C13, amended.  A response other than 200 to a request whose parameters  *)
(* were extracted follows a failed contract call and is one of the eight   *)
(* pairs of the dispatch table.  A request rejected at extraction (missing *)
(* query, page or id that is not an integer) is answered by the framework  *)
(* before any contract call, with status 400 and a text describing the     *)
(* rejection, which is none of the table's messages.                       *)
(***************************************************************************)
C13_FailureSurface ==
    \A r \in Requests :
        LET rq == reqs[r]
        IN  (rq.pc = "done" /\ rq.response.val.status # 200) =>
                IF Extracted(rq.http.val)
                THEN /\ Failed(rq)
                     /\ rq.response.val \in C13_Table
                ELSE /\ rq.calls = <<>>
                     /\ ~rq.result.some
                     /\ rq.response.val.status = 400
                     /\ rq.response.val.body \notin {p.body : p \in C13_Table}

C13_Witness ==
    \E r \in Requests :
        /\ reqs[r].pc = "done"
        /\ reqs[r].http.val = [route |-> "/api/movie/{id}/videos", id |-> "abc"]
        /\ reqs[r].response.val =
                [status |-> 400,
                 body |-> "Invalid URL: Cannot parse 'abc' to a 'i32'"]

(***************************************************************************)
(* C14.  The search URL the live client transmits carries the search text  *)
(* percent-encoded: for every query text, also one with & = # % + or a     *)
(* space, the upstream that splits the transmitted query string at & and   *)
(* =, and decodes each value, reads the original text as the query         *)
(* parameter, and reads api_key, page and include_adult as for any other   *)
(* query.                                                                  *)
(***************************************************************************)
RECURSIVE C14_Decode(_)
C14_Decode(chars) ==
    IF chars = <<>> THEN <<>>
    ELSE IF chars[1] \in {"%20", "+"} THEN <<" ">> \o C14_Decode(Tail(chars))
    ELSE IF chars[1] = "%" /\ Len(chars) >= 2 /\ chars[2] = "25"
    THEN <<"%">> \o C14_Decode(Tail(Tail(chars)))
    ELSE <<chars[1]>> \o C14_Decode(Tail(chars))

RECURSIVE C14_Pairs(_)
C14_Pairs(chars) ==
    LET a == find(chars, "&")
    IN  IF a = 0 THEN <<chars>>
        ELSE <<SubSeq(chars, 1, a - 1)>>
                \o C14_Pairs(SubSeq(chars, a + 1, Len(chars)))

C14_Param(query, name) ==
    LET pairs == C14_Pairs(query)
        named == {i \in 1..Len(pairs) :
                    /\ Len(pairs[i]) >= 2
                    /\ pairs[i][1] = name
                    /\ pairs[i][2] = "="}
    IN  IF named = {} THEN None
        ELSE LET i == CHOOSE i \in named : \A j \in named : i <= j
             IN  Some(C14_Decode(SubSeq(pairs[i], 3, Len(pairs[i]))))

C14_QueryRoundTrips ==
    (unit.fn = "url" /\ unit.call.op = "search_content" /\ unit.target.some) =>
        LET query == unit.target.val.query
        IN  /\ C14_Param(query, "query") = Some(unit.call.query)
            /\ C14_Param(query, "api_key") = Some(<<client.api_key>>)
            /\ C14_Param(query, "page") = Some(<<ToString(unit.call.page)>>)
            /\ C14_Param(query, "include_adult") = Some(<<"false">>)
            /\ Len(C14_Pairs(query)) = 4

(***************************************************************************)
(* C15.  No error the live client returns carries the credential: for      *)
(* every operation and every failure (transport failure, body that does    *)
(* not decode, status that is not 2xx) the text in the error contains      *)
(* neither the api_key given at construction nor the URL requested.        *)
(***************************************************************************)
C15_Contains(text, part) ==
    \E i \in 1..Len(text) :
        /\ i + Len(part) - 1 <= Len(text)
        /\ SubSeq(text, i, i + Len(part) - 1) = part

C15_NoCredentialInErrors ==
    (/\ unit.fn = "url"
     /\ unit.result.some
     /\ ~unit.result.val.ok
     /\ "msg" \in DOMAIN unit.result.val.err) =>
        /\ ~C15_Contains(unit.result.val.err.msg, <<client.api_key>>)
        /\ ~C15_Contains(unit.result.val.err.msg, unit.url.val)

(***************************************************************************)
(* C16.  Requests served concurrently are independent.  Every step is the  *)
(* step of one request: it changes that request's record only and leaves   *)
(* the client behind the AppState as it was.  Under every interleaving, a  *)
(* finished request's response is the one its own request and its own      *)
(* upstream outcome give when handled alone: the extractor's rejection, or *)
(* the dispatch of the transport failure, or of from_status of its status  *)
(* and body, or 200 with its decoded body.                                 *)
(***************************************************************************)
C16_Rejection(http) ==
    CASE http.route = "/api/trending" -> Query_PageQuery(http).err
      [] http.route = "/api/search" -> Query_SearchQuery(http).err
      [] http.route = "/api/movie/{id}/videos" -> Path_i32(http).err

C16_Alone(rq) ==
    IF ~Extracted(rq.http.val) THEN C16_Rejection(rq.http.val)
    ELSE IF ~rq.head.val.ok
    THEN map_error_to_response(NetworkError(rq.head.val.err))
    ELSE IF ~is_success(rq.head.val.val)
    THEN map_error_to_response(
            from_status(rq.head.val.val,
                        IF rq.body.val.ok THEN rq.body.val.val ELSE ""))
    ELSE LET data == Response_json(OpOfRoute(RouteOf(rq)), rq.body.val)
         IN  IF data.ok THEN [status |-> 200, body |-> Json(data.val)]
             ELSE map_error_to_response(NetworkError(data.err))

C16_Step ==
    /\ client' = client
    /\ \A r \in Requests :
            reqs'[r] # reqs[r] => \A q \in Requests \ {r} : reqs'[q] = reqs[q]
    /\ \A r \in Requests :
            reqs'[r].pc = "done" => reqs'[r].response = Some(C16_Alone(reqs'[r]))

C16_Independent == [][C16_Step]_vars

C16_Witness ==
    /\ Len(reqs) >= 2
    /\ reqs[1].pc = "body"
    /\ reqs[1].head = Some(Ok(500))
    /\ reqs[2].pc = "done"
    /\ reqs[2].head = Some(Ok(200))
    /\ reqs[2].response.val.status = 200
    /\ reqs[1].http = reqs[2].http

(***************************************************************************)
(* C17.  The page number is always positive: on the trending and search    *)
(* routes the contract operation is invoked only with page >= 1, and every *)
(* TmdbResponse sent back in a 200 response has page >= 1 and              *)
(* total_pages >= 0.                                                       *)
(***************************************************************************)
C17_PagePositive ==
    \A r \in Requests :
        LET rq == reqs[r]
        IN  /\ \A i \in 1..Len(rq.calls) :
                    rq.calls[i].op \in {"get_trending", "search_content"} =>
                        rq.calls[i].page >= 1
            /\ (/\ rq.pc = "done"
                /\ rq.response.val.status = 200
                /\ RouteOf(rq) \in {"/api/trending", "/api/search"}) =>
                    /\ C12_Member(rq.response.val.body, "page").v >= 1
                    /\ C12_Member(rq.response.val.body, "total_pages").v >= 0

(***************************************************************************)
(* C18.  The double answers every call by a fixed precedence over what the *)
(* builder was told for that operation: the response last configured for   *)
(* the exact input (page; query and page; movie id) if there is one,       *)
(* otherwise the default last configured for the operation if there is     *)
(* one, otherwise the built-in success response.  A default never          *)
(* overrides a response for the exact input, whether it was configured     *)
(* before or after it, and what was configured for another operation       *)
(* plays no part.                                                          *)
(***************************************************************************)
C18_Specific(op) ==
    CASE op = "get_trending" -> "with_trending_response"
      [] op = "search_content" -> "with_search_response"
      [] op = "get_movie_videos" -> "with_video_response"
C18_Default(op) ==
    CASE op = "get_trending" -> "with_default_trending"
      [] op = "search_content" -> "with_default_search"
      [] op = "get_movie_videos" -> "with_default_video"
C18_Key(call) ==
    CASE call.op = "get_trending" -> call.page
      [] call.op = "search_content" -> <<call.query, call.page>>
      [] call.op = "get_movie_videos" -> call.movie_id
C18_BuiltIn(call) ==
    CASE call.op = "get_trending" -> default_trending_response(call.page)
      [] call.op = "search_content" ->
            default_search_response(call.query, call.page)
      [] call.op = "get_movie_videos" -> default_video_response(call.movie_id)

C18_Expected(log, call) ==
    LET specific == {i \in 1..Len(log) :
                        /\ log[i].method = C18_Specific(call.op)
                        /\ log[i].key = C18_Key(call)}
        default == {i \in 1..Len(log) : log[i].method = C18_Default(call.op)}
        last(S) == CHOOSE i \in S : \A j \in S : j <= i
    IN  IF specific # {} THEN log[last(specific)].response
        ELSE IF default # {} THEN log[last(default)].response
        ELSE C18_BuiltIn(call)

C18_FixedPrecedence ==
    \A r \in Requests :
        (Returned(reqs[r]) /\ client.impl = "MockTmdbClient") =>
            /\ builder.phase = "built"
            /\ reqs[r].result.val = C18_Expected(builder.log, reqs[r].calls[1])

C18_Witness ==
    \E r \in Requests :
        /\ Returned(reqs[r])
        /\ builder.phase = "built"
        /\ Len(builder.log) = 2
        /\ builder.log[1] = [method |-> "with_trending_response", key |-> 2,
                             response |-> Ok(custom_response)]
        /\ builder.log[2].method = "with_default_trending"
        /\ ~builder.log[2].response.ok
        /\ reqs[r].calls = <<[op |-> "get_trending", page |-> 2]>>
        /\ reqs[r].result.val = Ok(custom_response)

(***************************************************************************)
(* C19.  As claimed: the rendering of an error does not vary with what the *)
(* kind carries, except for BadRequest and Unknown, whose rendering        *)
(* contains the carried body verbatim; NotFound renders "Resource not      *)
(* found", Unauthorized "Unauthorized: Invalid or missing API key",        *)
(* RateLimitExceeded "API rate limit exceeded" and ServerError(503)        *)
(* "Server error: 503".                                                    *)
(***************************************************************************)
C19_Named(e, text) ==
    /\ e = NotFound => text = "Resource not found"
    /\ e = Unauthorized => text = "Unauthorized: Invalid or missing API key"
    /\ e = RateLimitExceeded => text = "API rate limit exceeded"
    /\ e = ServerError(503) => text = "Server error: 503"

C19_FixedUnlessBody ==
    unit.fn = "fmt" =>
        \A i \in 1..Len(unit.outs) :
            /\ C19_Named(unit.arg, unit.outs[i])
            /\ unit.arg.kind = "BadRequest" =>
                    unit.outs[i] = "Bad request: " \o unit.arg.msg
            /\ unit.arg.kind = "Unknown" =>
                    unit.outs[i] = "Unknown error (" \o ToString(unit.arg.code)
                                        \o "): " \o unit.arg.msg
            /\ unit.arg.kind \notin {"BadRequest", "Unknown"} =>
                    \A e \in TmdbErrors :
                        e.kind = unit.arg.kind => Display_fmt(e) = unit.outs[i]

(***************************************************************************)
(* C19, amended.  NotFound, Unauthorized and RateLimitExceeded carry       *)
(* nothing and render one fixed message each.  Every other kind renders a  *)
(* fixed prefix followed by what it carries: NetworkError "Network error:  *)
(* " and its text, ParseError "Failed to parse response: " and its text,   *)
(* BadRequest "Bad request: " and the upstream body, ServerError "Server   *)
(* error: " and its code in decimal, Unknown "Unknown error (", its code,  *)
(* "): " and the upstream body; rendering the same value again gives the   *)
(* same text.                                                              *)
(***************************************************************************)
C19_Rendering(e) ==
    CASE e.kind = "NotFound" -> "Resource not found"
      [] e.kind = "Unauthorized" -> "Unauthorized: Invalid or missing API key"
      [] e.kind = "RateLimitExceeded" -> "API rate limit exceeded"
      [] e.kind = "NetworkError" -> "Network error: " \o e.msg
      [] e.kind = "ParseError" -> "Failed to parse response: " \o e.msg
      [] e.kind = "BadRequest" -> "Bad request: " \o e.msg
      [] e.kind = "ServerError" -> "Server error: " \o ToString(e.code)
      [] e.kind = "Unknown" ->
            "Unknown error (" \o ToString(e.code) \o "): " \o e.msg

C19_PrefixAndPayload ==
    unit.fn = "fmt" =>
        \A i \in 1..Len(unit.outs) :
            /\ unit.outs[i] = C19_Rendering(unit.arg)
            /\ C19_Named(unit.arg, unit.outs[i])

C19_Witness ==
    /\ unit.fn = "fmt"
    /\ unit.arg = NetworkError("connection refused")
    /\ unit.outs = <<"Network error: connection refused",
                     "Network error: connection refused">>

(***************************************************************************)
(* C20.  Through the live client, an upstream answer with a status s       *)
(* outside 200..299 gives the client-facing status 400 for s = 400, 401    *)
(* for 401, 404 for 404, 429 for 429, 502 for every s in 500..599 and 500  *)
(* for every other s, with the dispatch table's fixed text as the body,    *)
(* whatever the upstream's body was.                                       *)
(***************************************************************************)
C20_Response(s) ==
    CASE s = 400 -> [status |-> 400, body |-> "Bad request"]
      [] s = 401 -> [status |-> 401, body |-> "Invalid or missing API key"]
      [] s = 404 -> [status |-> 404, body |-> "Resource not found"]
      [] s = 429 -> [status |-> 429, body |-> "Rate limit exceeded"]
      [] s \in 500..599 -> [status |-> 502, body |-> "Upstream server error"]
      [] OTHER -> [status |-> 500, body |-> "Unknown error occurred"]

C20_UpstreamStatusToResponse ==
    \A r \in Requests :
        LET rq == reqs[r]
        IN  (/\ rq.pc \in {"body", "done"}
             /\ GotStatus(rq)
             /\ rq.head.val.val \notin 200..299) =>
                /\ rq.pc = "done" => rq.response.val = C20_Response(rq.head.val.val)
                /\ rq.pc = "body" => ~rq.response.some

C20_Witness ==
    \E r \in Requests :
        /\ reqs[r].pc = "done"
        /\ reqs[r].head = Some(Ok(599))
        /\ reqs[r].body = Some(Ok(NotJson))
        /\ reqs[r].response.val = [status |-> 502, body |-> "Upstream server error"]

(***************************************************************************)
(* C21.  Every request accepted on an API route gets exactly one response, *)
(* and gets it eventually when its upstream call completes.  A request     *)
(* awaiting its upstream call has no response and no result yet; a         *)
(* response is sent only once the contract call has returned, or for a     *)
(* request rejected before any call; a response once sent is not changed   *)
(* or repeated, the connection only closes.  The request whose upstream    *)
(* call completes is answered also while calls of other requests stay      *)
(* pending.                                                                *)
(***************************************************************************)
C21_Pending(rq) == rq.pc \in {"send", "body"}

C21_OneResponse(rq) ==
    /\ C21_Pending(rq) => ~rq.response.some /\ ~rq.result.some
    /\ rq.pc = "done" <=> rq.response.some
    /\ (rq.response.some /\ rq.calls # <<>>) => rq.result.some

C21_Step ==
    \A r \in Requests :
        /\ C21_OneResponse(reqs'[r])
        /\ reqs[r].response.some =>
                reqs'[r] = reqs[r] \/ reqs'[r] = IdleRequest
        /\ (reqs[r].pc = "idle" /\ reqs'[r].pc # "idle") =>
                C21_Pending(reqs'[r]) \/ reqs'[r].pc = "done"

C21_ResponseLiveness ==
    /\ [][C21_Step]_vars
    /\ C21_Pending(reqs[LiveConnection]) ~> reqs[LiveConnection].pc = "done"

C21_Witness ==
    /\ Len(reqs) >= 2
    /\ reqs[LiveConnection].pc = "done"
    /\ reqs[LiveConnection].result.some
    /\ reqs[LiveConnection].response.val.status = 200
    /\ \A q \in Requests \ {LiveConnection} : reqs[q].pc = "send"

====
